---- MODULE Spec2Model ----
(***************************************************************************)
(* Model of function-source/main.py: the Cloud Function that relays Secret *)
(* Manager audit-log events to the GitLab pipeline trigger API.            *)
(*                                                                         *)
(* Text that the code inspects character by character (methodName,         *)
(* resourceName, REQUIRED_LABELS, label keys and values) is a sequence of  *)
(* one-character strings, so that `in`, split and strip are computed.      *)
(* Text that the code only copies or tests for emptiness (tokens, ids,     *)
(* URLs, event types) is an ordinary string.                               *)
(***************************************************************************)
EXTENDS Integers, Sequences, FiniteSets, TLC

VARIABLES
    environ,               \* os.environ of the process
    pc,                    \* position of the invocation in handle_secret_event
    method_name,           \* protoPayload.methodName
    resource_name,         \* protoPayload.resourceName
    event_type,            \* local event_type ("" while unbound)
    gcp_project_id,        \* locals read from the environment, lines 180-185
    gitlab_url,
    gitlab_project_id,
    gitlab_trigger_token,
    gitlab_ref,
    required_labels_str,
    required_labels,       \* parse_required_labels(required_labels_str)
    secret_name,           \* second component of extract_secret_info
    secret_path,           \* resource_name without its version suffix
    labels,                \* value returned by get_secret_labels
    pipeline_variables,    \* variables handed to trigger_gitlab_pipeline
    result,                \* value returned by trigger_gitlab_pipeline
    pipeline_id,           \* result.get("id", "unknown")
    pipeline_url,          \* result.get("web_url", "N/A")
    calls,                 \* outbound calls of this invocation, in order
    secret_reply,          \* what Secret Manager answered to get_secret
    http_reply,            \* what GitLab (or the network) answered to the POST
    raised,                \* exception that escaped the handler ("none" if none)
    outcome                \* which exit of the handler was taken

vars == <<environ, pc, method_name, resource_name, event_type, gcp_project_id,
          gitlab_url, gitlab_project_id, gitlab_trigger_token, gitlab_ref,
          required_labels_str, required_labels, secret_name, secret_path,
          labels, pipeline_variables, result, pipeline_id, pipeline_url, calls,
          secret_reply, http_reply, raised, outcome>>

(***************************************************************************)
(* Bounds of the model.                                                    *)
(***************************************************************************)
\* longest generated REQUIRED_LABELS string
MaxLabelsLen == 2
\* most pieces concatenated into a generated method name
MaxMethodPieces == 2

(***************************************************************************)
(* Literals of the source.                                                 *)
(***************************************************************************)
\* "CreateSecret"
CreateSecret == <<"C", "r", "e", "a", "t", "e", "S", "e", "c", "r", "e", "t">>
\* "AddSecretVersion"
AddSecretVersion == <<"A", "d", "d", "S", "e", "c", "r", "e", "t", "V", "e", "r", "s", "i", "o", "n">>
\* "DeleteSecret"
DeleteSecret == <<"D", "e", "l", "e", "t", "e", "S", "e", "c", "r", "e", "t">>
\* "/versions/"
VersionSep == <<"/", "v", "e", "r", "s", "i", "o", "n", "s", "/">>
\* "unknown"
Unknown == <<"u", "n", "k", "n", "o", "w", "n">>
\* timeout=30 of requests.post
Timeout == 30

\* an empty dict
EmptyDict == <<>>
\* an empty str, for text held as characters
EmptyStr == <<>>
\* characters str.strip() removes (the ones the inputs below can hold)
Whitespace == {" "}

(***************************************************************************)
(* Python's str and dict operations, as the code uses them.                *)
(***************************************************************************)
\* s.find(sub) + 1: position of the first occurrence of sub in s, 0 if none
IndexOf(s, sub) ==
    LET hits == {i \in 1..(Len(s) - Len(sub) + 1) : SubSeq(s, i, i + Len(sub) - 1) = sub}
    IN  IF hits = {} THEN 0 ELSE CHOOSE i \in hits : \A j \in hits : i <= j

\* sub in s
Contains(s, sub) == IndexOf(s, sub) # 0

\* s.split(sep)
RECURSIVE Split(_, _)
Split(s, sep) ==
    LET i == IndexOf(s, sep)
    IN  IF i = 0
        THEN <<s>>
        ELSE <<SubSeq(s, 1, i - 1)>> \o Split(SubSeq(s, i + Len(sep), Len(s)), sep)

\* s.split(sep, 1)
SplitOnce(s, sep) ==
    LET i == IndexOf(s, sep)
    IN  IF i = 0
        THEN <<s>>
        ELSE <<SubSeq(s, 1, i - 1), SubSeq(s, i + Len(sep), Len(s))>>

\* s.strip()
RECURSIVE Strip(_)
Strip(s) ==
    IF s = <<>> THEN s
    ELSE IF s[1] \in Whitespace THEN Strip(Tail(s))
    ELSE IF s[Len(s)] \in Whitespace THEN Strip(SubSeq(s, 1, Len(s) - 1))
    ELSE s

\* d[key] = value
DictSet(d, key, value) ==
    [k \in DOMAIN d \cup {key} |-> IF k = key THEN value ELSE d[k]]

\* os.environ.get(name, default)
EnvGet(env, name, default) == IF name \in DOMAIN env THEN env[name] ELSE default

(***************************************************************************)
(* The module's functions.                                                 *)
(***************************************************************************)
\* the request name get_secret_labels sends: the path without its version
SecretRequestName(name) ==
    IF Contains(name, VersionSep) THEN Split(name, VersionSep)[1] ELSE name

\* a faulty lookup: the exception of get_secret is not caught
get_secret_labels_uncaught(reply) ==
    IF reply.kind = "secret"
    THEN [raised |-> "none",
          value |-> IF reply.labels # EmptyDict THEN reply.labels ELSE EmptyDict]
    ELSE [raised |-> reply.exc, value |-> EmptyDict]

\* get_secret_labels, given the service's reply to get_secret: the exception
\* it lets escape ("none": every Exception is caught, line 39) and the value
\* it returns ({} after an exception, {} for labels that are falsy)
get_secret_labels(reply) ==
    IF reply.kind = "secret"
    THEN [raised |-> "none",
          value |-> IF reply.labels # EmptyDict THEN reply.labels ELSE EmptyDict]
    ELSE [raised |-> "none", value |-> EmptyDict]

\* a faulty filter: one matching label is enough
should_trigger_pipeline_any(lbls, required) ==
    \/ required = EmptyDict
    \/ \E key \in DOMAIN required : key \in DOMAIN lbls /\ lbls[key] = required[key]

\* should_trigger_pipeline(labels, required_labels)
should_trigger_pipeline(lbls, required) ==
    IF required = EmptyDict
    THEN TRUE
    ELSE \A key \in DOMAIN required :
            ~(key \notin DOMAIN lbls \/ lbls[key] # required[key])

\* a faulty loop body: a pair without "=" becomes a key with an empty value
ParsePair_KeepBare(acc, rawpair) ==
    LET pair == Strip(rawpair)
    IN  IF Contains(pair, <<"=">>)
        THEN LET kv == SplitOnce(pair, <<"=">>)
             IN  DictSet(acc, Strip(kv[1]), Strip(kv[2]))
        ELSE DictSet(acc, pair, EmptyStr)

\* the loop body of parse_required_labels on one element of split(",")
ParsePair(acc, rawpair) ==
    LET pair == Strip(rawpair)
    IN  IF Contains(pair, <<"=">>)
        THEN LET kv == SplitOnce(pair, <<"=">>)
             IN  DictSet(acc, Strip(kv[1]), Strip(kv[2]))
        ELSE acc

\* the loop of parse_required_labels over the pairs, in order
RECURSIVE ParsePairs(_, _)
ParsePairs(acc, pairs) ==
    IF pairs = <<>> THEN acc ELSE ParsePairs(ParsePair(acc, Head(pairs)), Tail(pairs))

\* parse_required_labels(labels_str)
parse_required_labels(labels_str) ==
    IF labels_str = EmptyStr
    THEN EmptyDict
    ELSE ParsePairs(EmptyDict, Split(labels_str, <<",">>))

\* a faulty extraction: the secret's name is taken one segment early
extract_secret_info_early(resource) ==
    LET parts == Split(resource, <<"/">>)
    IN  << IF Len(parts) > 1 THEN parts[2] ELSE Unknown,
           IF Len(parts) > 2 THEN parts[3] ELSE Unknown >>

\* extract_secret_info(resource_name): <<project_id, secret_name>>
extract_secret_info(resource) ==
    LET parts == Split(resource, <<"/">>)
    IN  << IF Len(parts) > 1 THEN parts[2] ELSE Unknown,
           IF Len(parts) > 3 THEN parts[4] ELSE Unknown >>

\* a faulty classification: the deletion fragment is tested first
EventTypeOf_DeleteFirst(name) ==
    IF Contains(name, DeleteSecret) THEN "secret_deleted"
    ELSE IF Contains(name, CreateSecret) THEN "secret_created"
    ELSE IF Contains(name, AddSecretVersion) THEN "secret_updated"
    ELSE ""

\* lines 169-177: the event type of a method name, "" when the method is
\* not handled
EventTypeOf(name) ==
    IF Contains(name, CreateSecret) THEN "secret_created"
    ELSE IF Contains(name, AddSecretVersion) THEN "secret_updated"
    ELSE IF Contains(name, DeleteSecret) THEN "secret_deleted"
    ELSE ""

\* a faulty validation: `and` for `or`
MissingConfig_And(project_id, trigger_token) == project_id = "" /\ trigger_token = ""

\* line 188: not gitlab_project_id or not gitlab_trigger_token
MissingConfig(project_id, trigger_token) == project_id = "" \/ trigger_token = ""

\* line 199: secret path without version, for the label lookup
SecretPathOf(resource) ==
    IF Contains(resource, VersionSep) THEN Split(resource, VersionSep)[1] ELSE resource

\* a faulty condition: deletions are filtered like the other events
NeedsLabelCheck_Deleted(etype, required) == required # EmptyDict

\* line 202: event_type != "secret_deleted" and required_labels
NeedsLabelCheck(etype, required) == etype # "secret_deleted" /\ required # EmptyDict

\* lines 214-220: the pipeline variables
PipelineVariables(etype, sname, resource, gcp) ==
    [k \in {"SECRET_EVENT_TYPE", "SECRET_NAME", "SECRET_RESOURCE", "GCP_PROJECT_ID",
            "TRIGGERED_BY"} |->
        CASE k = "SECRET_EVENT_TYPE" -> etype
          [] k = "SECRET_NAME" -> sname
          [] k = "SECRET_RESOURCE" -> resource
          [] k = "GCP_PROJECT_ID" -> gcp
          [] k = "TRIGGERED_BY" -> "gcp-secret-manager-webhook"]

\* line 130: the URL of the trigger call
TriggerUrl(url, project_id) ==
    url \o "/api/v4/projects/" \o project_id \o "/trigger/pipeline"

\* lines 132-139: the form data of the trigger call
TriggerData(trigger_token, ref, variables) ==
    LET field(key) == "variables[" \o key \o "]"
        fields == IF variables # EmptyDict
                  THEN {field(key) : key \in DOMAIN variables}
                  ELSE {}
    IN  [f \in {"token", "ref"} \cup fields |->
            IF f = "token" THEN trigger_token
            ELSE IF f = "ref" THEN ref
            ELSE variables[CHOOSE key \in DOMAIN variables : field(key) = f]]

\* response.raise_for_status(): HTTPError for a 4xx or 5xx status
RaisesForStatus(status) == 400 <= status /\ status < 600

\* lines 141-144 of trigger_gitlab_pipeline, given what the POST met:
\* the exception it raises ("none" if none) and the value it returns
trigger_gitlab_pipeline(reply) ==
    IF reply.kind = "exception"
    THEN [raised |-> reply.exc, value |-> EmptyDict]
    ELSE IF RaisesForStatus(reply.status)
    THEN [raised |-> "HTTPError", value |-> EmptyDict]
    ELSE IF reply.body.json = "invalid"
    THEN [raised |-> "JSONDecodeError", value |-> EmptyDict]
    ELSE [raised |-> "none", value |-> reply.body]

\* dict.get(key, default) on the parsed response, lines 232-233
ResultGet(res, key, default) ==
    IF key \in DOMAIN res.fields THEN res.fields[key] ELSE default

(***************************************************************************)
(* The inputs: events, environments and what the two services answer.      *)
(***************************************************************************)
\* s1 \o "/" \o s2 \o ...
RECURSIVE Path(_)
Path(segments) ==
    IF Len(segments) = 1 THEN segments[1]
    ELSE segments[1] \o <<"/">> \o Path(Tail(segments))

SegProjects == <<"p", "r", "o", "j", "e", "c", "t", "s">>
SegSecrets == <<"s", "e", "c", "r", "e", "t", "s">>
SegVersions == <<"v", "e", "r", "s", "i", "o", "n", "s">>

\* resource names an event can carry: "", "short", "projects/p1/secrets",
\* "projects/p1/secrets/", "projects/p1/secrets/s1" and
\* "projects/p1/secrets/s1/versions/3"
ResourceNames ==
    { EmptyStr,
      <<"s", "h", "o", "r", "t">>,
      Path(<<SegProjects, <<"p", "1">>, SegSecrets>>),
      Path(<<SegProjects, <<"p", "1">>, SegSecrets, EmptyStr>>),
      Path(<<SegProjects, <<"p", "1">>, SegSecrets, <<"s", "1">>>>),
      Path(<<SegProjects, <<"p", "1">>, SegSecrets, <<"s", "1">>, SegVersions, <<"3">>>>) }

\* "v1.", standing for "google.cloud.secretmanager.v1.SecretManagerService."
MethodPrefix == <<"v", "1", ".">>

\* method names an event can carry: the three handled ones, one that is not
\* handled, an absent one, and two that hold more than one fragment
MethodNames ==
    { MethodPrefix \o CreateSecret,
      MethodPrefix \o AddSecretVersion,
      MethodPrefix \o DeleteSecret,
      MethodPrefix \o <<"G", "e", "t", "S", "e", "c", "r", "e", "t">>,
      EmptyStr,
      DeleteSecret \o <<".">> \o CreateSecret,
      DeleteSecret \o <<".">> \o AddSecretVersion }

\* pieces of generated method names
MethodPieces ==
    { CreateSecret, AddSecretVersion, DeleteSecret,
      <<"C", "r", "e", "a", "t", "e">>, <<"D", "e", "l", "e", "t", "e">>,
      <<"A", "d", "d">>, <<"S", "e", "c", "r", "e", "t">>,
      <<"V", "e", "r", "s", "i", "o", "n">>, <<".">> }

\* the concatenations of at most n pieces
RECURSIVE Concatenations(_)
Concatenations(n) ==
    IF n = 0 THEN {EmptyStr}
    ELSE Concatenations(n - 1)
         \cup {m \o piece : m \in Concatenations(n - 1), piece \in MethodPieces}

GeneratedMethodNames == Concatenations(MaxMethodPieces)

\* characters of generated REQUIRED_LABELS strings
LabelChars == {"a", "=", ",", " "}

\* "env", "prod", "dev", "trigger", "true"
KeyEnv == <<"e", "n", "v">>
ValProd == <<"p", "r", "o", "d">>
ValDev == <<"d", "e", "v">>
KeyTrigger == <<"t", "r", "i", "g", "g", "e", "r">>
ValTrue == <<"t", "r", "u", "e">>

\* REQUIRED_LABELS values: every string of at most MaxLabelsLen characters,
\* and "env=prod", "env=prod, trigger=true", "bad,env=prod", "env=prod=x"
RequiredLabelsStrings ==
    UNION {[1..n -> LabelChars] : n \in 0..MaxLabelsLen}
    \cup { KeyEnv \o <<"=">> \o ValProd,
           KeyEnv \o <<"=">> \o ValProd \o <<",", " ">> \o KeyTrigger \o <<"=">> \o ValTrue,
           <<"b", "a", "d", ",">> \o KeyEnv \o <<"=">> \o ValProd,
           KeyEnv \o <<"=">> \o ValProd \o <<"=", "x">> }

\* a variable of the environment: unset, or set to one of vals
EnvChoice(name, vals) == {EmptyDict} \cup {name :> v : v \in vals}

\* the environments of the process (GITLAB_URL and GITLAB_REF left unset)
Environs ==
    { p @@ t @@ g @@ r :
        p \in EnvChoice("GITLAB_PROJECT_ID", {"", "4242"}),
        t \in EnvChoice("GITLAB_TRIGGER_TOKEN", {"glptt-0"}),
        g \in EnvChoice("GCP_PROJECT_ID", {"my-project"}),
        r \in EnvChoice("REQUIRED_LABELS", RequiredLabelsStrings) }

\* label mappings a secret can carry
LabelSets ==
    { EmptyDict,
      <<"a">> :> EmptyStr,
      <<"a">> :> <<"a">>,
      KeyEnv :> ValProd,
      KeyEnv :> ValProd @@ KeyTrigger :> ValTrue,
      KeyEnv :> ValDev @@ KeyTrigger :> ValTrue,
      KeyEnv :> (ValProd \o <<"=", "x">>) }

\* what get_secret can answer: the secret, or an exception
NoReply == [kind |-> "none"]
SecretReplies ==
    {[kind |-> "secret", labels |-> l, exc |-> "none"] : l \in LabelSets}
    \cup {[kind |-> "exception", labels |-> EmptyDict, exc |-> e] :
            e \in {"NotFound", "PermissionDenied", "ServiceUnavailable"}}

\* bodies of a GitLab response: not JSON, a JSON array, or a JSON object
\* with or without id and web_url
Bodies ==
    { [json |-> "invalid", fields |-> EmptyDict],
      [json |-> "array", fields |-> EmptyDict],
      [json |-> "object", fields |-> EmptyDict],
      [json |-> "object", fields |-> ("id" :> "42" @@ "web_url" :> "https://x/42")] }

\* what the POST can meet: an exception of requests, or a response
HttpReplies ==
    {[kind |-> "exception", exc |-> e, status |-> 0, body |-> [json |-> "invalid", fields |-> EmptyDict]] :
        e \in {"ConnectionError", "Timeout"}}
    \cup {[kind |-> "response", exc |-> "none", status |-> 201, body |-> b] : b \in Bodies}
    \cup {[kind |-> "response", exc |-> "none", status |-> st, body |-> b] :
            st \in {401, 500}, b \in {[json |-> "object", fields |-> EmptyDict]}}
    \cup {[kind |-> "response", exc |-> "none", status |-> 500,
           body |-> [json |-> "invalid", fields |-> EmptyDict]]}

(***************************************************************************)
(* handle_secret_event, one invocation at a time.                          *)
(***************************************************************************)
\* the locals of an invocation that has not yet bound them
FreshLocals ==
    /\ event_type = ""
    /\ gcp_project_id = ""
    /\ gitlab_url = ""
    /\ gitlab_project_id = ""
    /\ gitlab_trigger_token = ""
    /\ gitlab_ref = ""
    /\ required_labels_str = EmptyStr
    /\ required_labels = EmptyDict
    /\ secret_name = EmptyStr
    /\ secret_path = EmptyStr
    /\ labels = EmptyDict
    /\ pipeline_variables = EmptyDict
    /\ result = EmptyDict
    /\ pipeline_id = ""
    /\ pipeline_url = ""
    /\ calls = <<>>
    /\ secret_reply = NoReply
    /\ http_reply = NoReply
    /\ raised = "none"
    /\ outcome = "none"

\* the same locals, bound afresh by the next invocation
ResetLocals ==
    /\ event_type' = ""
    /\ gcp_project_id' = ""
    /\ gitlab_url' = ""
    /\ gitlab_project_id' = ""
    /\ gitlab_trigger_token' = ""
    /\ gitlab_ref' = ""
    /\ required_labels_str' = EmptyStr
    /\ required_labels' = EmptyDict
    /\ secret_name' = EmptyStr
    /\ secret_path' = EmptyStr
    /\ labels' = EmptyDict
    /\ pipeline_variables' = EmptyDict
    /\ result' = EmptyDict
    /\ pipeline_id' = ""
    /\ pipeline_url' = ""
    /\ calls' = <<>>
    /\ secret_reply' = NoReply
    /\ http_reply' = NoReply
    /\ raised' = "none"
    /\ outcome' = "none"

Init ==
    /\ environ \in Environs
    /\ pc = "idle"
    /\ method_name = EmptyStr
    /\ resource_name = EmptyStr
    /\ FreshLocals

\* lines 160-166: the framework hands an event to the handler; every
\* invocation starts with fresh locals
Receive(m, r) ==
    /\ pc \in {"idle", "done"}
    /\ pc' = "classify"
    /\ method_name' = m
    /\ resource_name' = r
    /\ ResetLocals
    /\ UNCHANGED environ

ReceiveEvent == \E m \in MethodNames, r \in ResourceNames : Receive(m, r)

\* the same, for the generated method names
ReceiveGenerated == \E m \in GeneratedMethodNames : Receive(m, EmptyStr)

\* a faulty classification step: the else branch does not return
ClassifyEvent_FallThrough ==
    /\ pc = "classify"
    /\ pc' = "load_config"
    /\ event_type' = EventTypeOf(method_name)
    /\ UNCHANGED <<environ, method_name, resource_name, gcp_project_id, gitlab_url,
                   gitlab_project_id, gitlab_trigger_token, gitlab_ref,
                   required_labels_str, required_labels, secret_name, secret_path,
                   labels, pipeline_variables, result, pipeline_id, pipeline_url,
                   calls, secret_reply, http_reply, raised, outcome>>

\* lines 168-177: determine the event type, or ignore the event
ClassifyEvent ==
    /\ pc = "classify"
    /\ IF EventTypeOf(method_name) = ""
       THEN /\ pc' = "done"
            /\ outcome' = "Unhandled"
            /\ UNCHANGED event_type
       ELSE /\ pc' = "load_config"
            /\ event_type' = EventTypeOf(method_name)
            /\ UNCHANGED outcome
    /\ UNCHANGED <<environ, method_name, resource_name, gcp_project_id, gitlab_url,
                   gitlab_project_id, gitlab_trigger_token, gitlab_ref,
                   required_labels_str, required_labels, secret_name, secret_path,
                   labels, pipeline_variables, result, pipeline_id, pipeline_url,
                   calls, secret_reply, http_reply, raised>>

\* lines 179-190: read the configuration and validate it
LoadConfig ==
    /\ pc = "load_config"
    /\ gcp_project_id' = EnvGet(environ, "GCP_PROJECT_ID", "")
    /\ gitlab_url' = EnvGet(environ, "GITLAB_URL", "https://gitlab.com")
    /\ gitlab_project_id' = EnvGet(environ, "GITLAB_PROJECT_ID", "")
    /\ gitlab_trigger_token' = EnvGet(environ, "GITLAB_TRIGGER_TOKEN", "")
    /\ gitlab_ref' = EnvGet(environ, "GITLAB_REF", "main")
    /\ required_labels_str' = EnvGet(environ, "REQUIRED_LABELS", EmptyStr)
    /\ IF MissingConfig(gitlab_project_id', gitlab_trigger_token')
       THEN /\ pc' = "done"
            /\ outcome' = "ConfigError"
       ELSE /\ pc' = "prepare"
            /\ UNCHANGED outcome
    /\ UNCHANGED <<environ, method_name, resource_name, event_type, required_labels,
                   secret_name, secret_path, labels, pipeline_variables, result,
                   pipeline_id, pipeline_url, calls, secret_reply, http_reply, raised>>

\* lines 192-199: parse the filter, extract the secret's name and path
Prepare ==
    /\ pc = "prepare"
    /\ required_labels' = parse_required_labels(required_labels_str)
    /\ secret_name' = extract_secret_info(resource_name)[2]
    /\ secret_path' = SecretPathOf(resource_name)
    /\ pc' = "check_labels"
    /\ UNCHANGED <<environ, method_name, resource_name, event_type, gcp_project_id,
                   gitlab_url, gitlab_project_id, gitlab_trigger_token, gitlab_ref,
                   required_labels_str, labels, pipeline_variables, result,
                   pipeline_id, pipeline_url, calls, secret_reply, http_reply,
                   raised, outcome>>

\* lines 201-211: look the labels up and compare them with the filter,
\* unless the event is a deletion or no filter is configured
CheckLabels ==
    /\ pc = "check_labels"
    /\ IF NeedsLabelCheck(event_type, required_labels)
       THEN \E reply \in SecretReplies :
              LET got == get_secret_labels(reply)
              IN  /\ calls' = Append(calls, [op |-> "get_secret",
                                             name |-> SecretRequestName(secret_path)])
                  /\ secret_reply' = reply
                  /\ IF got.raised # "none"
                     THEN /\ raised' = got.raised
                          /\ pc' = "done"
                          /\ outcome' = "Crashed"
                          /\ UNCHANGED labels
                     ELSE /\ labels' = got.value
                          /\ UNCHANGED raised
                          /\ IF ~should_trigger_pipeline(got.value, required_labels)
                             THEN /\ pc' = "done"
                                  /\ outcome' = "Skipped"
                             ELSE /\ pc' = "trigger"
                                  /\ UNCHANGED outcome
       ELSE /\ pc' = "trigger"
            /\ UNCHANGED <<calls, secret_reply, labels, outcome, raised>>
    /\ UNCHANGED <<environ, method_name, resource_name, event_type, gcp_project_id,
                   gitlab_url, gitlab_project_id, gitlab_trigger_token, gitlab_ref,
                   required_labels_str, required_labels, secret_name, secret_path,
                   pipeline_variables, result, pipeline_id, pipeline_url, http_reply>>

\* a faulty trigger step: a failed call is tried again
TriggerPipeline_Retry ==
    /\ pc = "trigger"
    /\ pipeline_variables' =
          PipelineVariables(event_type, secret_name, resource_name, gcp_project_id)
    /\ \E reply \in HttpReplies :
         LET ret == trigger_gitlab_pipeline(reply)
         IN  /\ calls' = Append(calls, [op |-> "post",
                                        url |-> TriggerUrl(gitlab_url, gitlab_project_id),
                                        data |-> TriggerData(gitlab_trigger_token,
                                                             gitlab_ref,
                                                             pipeline_variables'),
                                        timeout |-> Timeout])
             /\ http_reply' = reply
             /\ IF ret.raised # "none"
                THEN /\ raised' = ret.raised
                     /\ outcome' = "TriggerFailed"
                     /\ UNCHANGED <<result, pipeline_id, pipeline_url>>
                ELSE IF ret.value.json # "object"
                THEN /\ result' = ret.value
                     /\ raised' = "AttributeError"
                     /\ outcome' = "Crashed"
                     /\ UNCHANGED <<pipeline_id, pipeline_url>>
                ELSE /\ result' = ret.value
                     /\ pipeline_id' = ResultGet(ret.value, "id", "unknown")
                     /\ pipeline_url' = ResultGet(ret.value, "web_url", "N/A")
                     /\ outcome' = "Triggered"
                     /\ UNCHANGED raised
    /\ pc' = IF raised' # "none" /\ Len(calls) < 2 THEN "trigger" ELSE "done"
    /\ UNCHANGED <<environ, method_name, resource_name, event_type, gcp_project_id,
                   gitlab_url, gitlab_project_id, gitlab_trigger_token, gitlab_ref,
                   required_labels_str, required_labels, secret_name, secret_path,
                   labels, secret_reply>>

\* lines 213-241: build the variables and make the trigger call; a
\* RequestException is logged and re-raised, any other exception escapes too
TriggerPipeline ==
    /\ pc = "trigger"
    /\ pipeline_variables' =
          PipelineVariables(event_type, secret_name, resource_name, gcp_project_id)
    /\ \E reply \in HttpReplies :
         LET ret == trigger_gitlab_pipeline(reply)
         IN  /\ calls' = Append(calls, [op |-> "post",
                                        url |-> TriggerUrl(gitlab_url, gitlab_project_id),
                                        data |-> TriggerData(gitlab_trigger_token,
                                                             gitlab_ref,
                                                             pipeline_variables'),
                                        timeout |-> Timeout])
             /\ http_reply' = reply
             /\ IF ret.raised # "none"
                THEN /\ raised' = ret.raised
                     /\ outcome' = "TriggerFailed"
                     /\ UNCHANGED <<result, pipeline_id, pipeline_url>>
                ELSE IF ret.value.json # "object"
                THEN /\ result' = ret.value
                     /\ raised' = "AttributeError"
                     /\ outcome' = "Crashed"
                     /\ UNCHANGED <<pipeline_id, pipeline_url>>
                ELSE /\ result' = ret.value
                     /\ pipeline_id' = ResultGet(ret.value, "id", "unknown")
                     /\ pipeline_url' = ResultGet(ret.value, "web_url", "N/A")
                     /\ outcome' = "Triggered"
                     /\ UNCHANGED raised
    /\ pc' = "done"
    /\ UNCHANGED <<environ, method_name, resource_name, event_type, gcp_project_id,
                   gitlab_url, gitlab_project_id, gitlab_trigger_token, gitlab_ref,
                   required_labels_str, required_labels, secret_name, secret_path,
                   labels, secret_reply>>

Next ==
    \/ ReceiveEvent
    \/ ClassifyEvent
    \/ LoadConfig
    \/ Prepare
    \/ CheckLabels
    \/ TriggerPipeline

Spec == Init /\ [][Next]_vars

\* the classification alone, over the generated method names
InitClassify == Init /\ environ = EmptyDict

NextClassify == ReceiveGenerated \/ ClassifyEvent

SpecClassify == InitClassify /\ [][NextClassify]_vars

(***************************************************************************)
(* Properties.                                                             *)
(***************************************************************************)
\* positions of the label lookups and of the trigger calls in calls
LookupCalls == {i \in 1..Len(calls) : calls[i].op = "get_secret"}
PostCalls == {i \in 1..Len(calls) : calls[i].op = "post"}

\* the CI project id or the trigger credential is unset or empty
EnvMissing ==
    \E name \in {"GITLAB_PROJECT_ID", "GITLAB_TRIGGER_TOKEN"} :
        name \notin DOMAIN environ \/ environ[name] = ""

\* the raw REQUIRED_LABELS string of the environment
RawRequiredLabels ==
    IF "REQUIRED_LABELS" \in DOMAIN environ THEN environ["REQUIRED_LABELS"] ELSE EmptyStr

\* fragment f occurs in the method name, character by character
Has(f) ==
    \E i \in 0..(Len(method_name) - Len(f)) :
        \A j \in 1..Len(f) : method_name[i + j] = f[j]

\* the event is being handled: it was received and classified
Classified == pc \notin {"idle", "classify"}

\* the labels the lookup fetched ({} when it failed or was not made)
Fetched == IF secret_reply.kind = "secret" THEN secret_reply.labels ELSE EmptyDict

\* every required key is in the fetched labels with an equal value
FilterMatches ==
    \A key \in DOMAIN required_labels :
        key \in DOMAIN Fetched /\ Fetched[key] = required_labels[key]

\* the fourth slash-delimited segment of r, "unknown" if r has fewer than four
FourthSegment(r) ==
    LET slashes == {i \in 1..Len(r) : r[i] = "/"}
    IN  IF Cardinality(slashes) < 3
        THEN Unknown
        ELSE LET third == CHOOSE i \in slashes :
                              Cardinality({k \in slashes : k < i}) = 2
                 later == {k \in slashes : k > third}
                 last == IF later = {} THEN Len(r)
                         ELSE (CHOOSE k \in later : \A l \in later : k <= l) - 1
             IN  SubSeq(r, third + 1, last)

\* C1: when the CI project id or the trigger credential is empty, the
\* invocation never raises, never makes the trigger call and never goes past
\* the validation, whatever the event kind and the required labels are: it
\* ends as an ignored event or as a configuration error.
C1_MissingConfigNoCall ==
    EnvMissing =>
        /\ raised = "none"
        /\ PostCalls = {}
        /\ pc \notin {"prepare", "check_labels", "trigger"}
        /\ (pc = "done" => outcome \in {"Unhandled", "ConfigError"})

\* C1 happens: a deletion with a filter configured ended as a configuration error
C1_Witness ==
    /\ pc = "done"
    /\ outcome = "ConfigError"
    /\ event_type = "secret_deleted"
    /\ RawRequiredLabels # EmptyStr

\* C2: a deletion with the CI project id and the credential configured makes
\* no label lookup, is never skipped, and ends having made the trigger call,
\* whatever the required labels are.
C2_DeletionBypassesFilter ==
    (event_type = "secret_deleted" /\ ~EnvMissing) =>
        /\ LookupCalls = {}
        /\ outcome # "Skipped"
        /\ (pc = "done" => Cardinality(PostCalls) = 1)

\* C2 happens: a deletion under a non-empty filter made the trigger call
C2_Witness ==
    /\ pc = "done"
    /\ event_type = "secret_deleted"
    /\ required_labels # EmptyDict
    /\ PostCalls # {}

\* C3: a creation or update with valid configuration reaches the trigger
\* call exactly when every required label is in the fetched labels with an
\* equal value; an empty filter always passes; a mismatch ends the
\* invocation as skipped, without exception and without trigger call.
C3_TriggerIffFilterMatches ==
    (event_type \in {"secret_created", "secret_updated"} /\ ~EnvMissing) =>
        /\ (pc = "trigger" => FilterMatches)
        /\ (pc = "done" =>
              /\ (PostCalls # {} <=> FilterMatches)
              /\ (required_labels = EmptyDict => PostCalls # {})
              /\ (~FilterMatches => raised = "none" /\ outcome = "Skipped"))

\* C3 happens: a creation matched a filter of two labels and was triggered
C3_Witness ==
    /\ pc = "done"
    /\ event_type = "secret_created"
    /\ Cardinality(DOMAIN required_labels) = 2
    /\ Cardinality(LookupCalls) = 1
    /\ PostCalls # {}

\* C4: a failed label lookup is not propagated: the labels are the empty
\* mapping, nothing is raised, and the invocation (a creation or update under
\* a non-empty filter) has ended as skipped without trigger call.
C4_LookupFailureSkips ==
    secret_reply.kind = "exception" =>
        /\ labels = EmptyDict
        /\ raised = "none"
        /\ event_type \in {"secret_created", "secret_updated"}
        /\ required_labels # EmptyDict
        /\ pc = "done"
        /\ outcome = "Skipped"
        /\ PostCalls = {}

\* C4 happens: the lookup was refused and the update ended
C4_Witness ==
    /\ secret_reply.kind = "exception"
    /\ secret_reply.exc = "PermissionDenied"
    /\ event_type = "secret_updated"
    /\ pc = "done"

\* the trigger call failed: a network error or a non-success HTTP status
TriggerCallFailed ==
    \/ http_reply.kind = "exception"
    \/ http_reply.kind = "response" /\ ~(200 <= http_reply.status /\ http_reply.status < 300)

\* C5: an invocation ends with a failure surfaced to the framework if and
\* only if the trigger call was attempted and failed (network error or
\* non-success HTTP status); every other outcome ends normally.
C5_OnlyTriggerFailurePropagates ==
    pc = "done" => (raised # "none" <=> (PostCalls # {} /\ TriggerCallFailed))

\* C6: the event kind is decided by ordered containment: created if the
\* method name holds "CreateSecret"; else updated if it holds
\* "AddSecretVersion"; else deleted if it holds "DeleteSecret"; else the
\* event is not handled.
C6_OrderedClassification ==
    Classified =>
        /\ (Has(CreateSecret) => event_type = "secret_created")
        /\ (~Has(CreateSecret) /\ Has(AddSecretVersion) => event_type = "secret_updated")
        /\ (~Has(CreateSecret) /\ ~Has(AddSecretVersion) /\ Has(DeleteSecret)
              => event_type = "secret_deleted")
        /\ (~Has(CreateSecret) /\ ~Has(AddSecretVersion) /\ ~Has(DeleteSecret)
              => event_type = "" /\ outcome = "Unhandled" /\ pc = "done")
        /\ (event_type # "" => outcome # "Unhandled")

\* C6 happens: a name holding the deletion and the creation fragment, the
\* deletion one first, was classified as created
C6_Witness ==
    /\ Classified
    /\ method_name = DeleteSecret \o CreateSecret
    /\ event_type = "secret_created"

\* C7: an event that is not handled ends at once and normally: no label
\* lookup, no trigger call, no exception, and the configuration is not even
\* read, whatever the environment holds.
C7_UnhandledDoesNothing ==
    (Classified /\ ~Has(CreateSecret) /\ ~Has(AddSecretVersion) /\ ~Has(DeleteSecret)) =>
        /\ pc = "done"
        /\ outcome = "Unhandled"
        /\ calls = <<>>
        /\ raised = "none"
        /\ gitlab_project_id = "" /\ gitlab_trigger_token = ""

\* C7 happens: an event of another method ended ignored although the
\* required configuration is missing
C7_Witness ==
    /\ pc = "done"
    /\ outcome = "Unhandled"
    /\ method_name # EmptyStr
    /\ EnvMissing

\* C8: an invocation makes at most one label lookup and at most one trigger
\* call, the lookup before the trigger call; a failed trigger call is the
\* invocation's last call and ends it; an invocation that passed the filter
\* ends with exactly one trigger call.
C8_SingleCallsNoRetry ==
    /\ Cardinality(LookupCalls) <= 1
    /\ Cardinality(PostCalls) <= 1
    /\ \A i \in LookupCalls, j \in PostCalls : i < j
    /\ (pc = "trigger" => PostCalls = {})
    /\ (PostCalls # {} => pc = "done" /\ calls[Len(calls)].op = "post")
    /\ (pc = "done" /\ outcome \notin {"Unhandled", "ConfigError", "Skipped"}
          => Cardinality(PostCalls) = 1)

\* C8 happens: a lookup, then a trigger call that failed, and nothing after
C8_Witness ==
    /\ pc = "done"
    /\ raised = "HTTPError"
    /\ Len(calls) = 2
    /\ calls[1].op = "get_secret"
    /\ calls[2].op = "post"

\* C9: whenever the trigger call is made, its variables are exactly the
\* five keys, with the classified event type, the fourth segment of the
\* resource name (or "unknown"), the unmodified resource name, the configured
\* source project id and the fixed marker; the form data carries each of
\* them as variables[<key>] beside token and ref.
C9_PipelineVariablesExact ==
    \A i \in PostCalls :
        LET data == calls[i].data
        IN  /\ DOMAIN pipeline_variables =
                  {"SECRET_EVENT_TYPE", "SECRET_NAME", "SECRET_RESOURCE",
                   "GCP_PROJECT_ID", "TRIGGERED_BY"}
            /\ pipeline_variables["SECRET_EVENT_TYPE"] = event_type
            /\ event_type \in {"secret_created", "secret_updated", "secret_deleted"}
            /\ pipeline_variables["SECRET_NAME"] = FourthSegment(resource_name)
            /\ pipeline_variables["SECRET_RESOURCE"] = resource_name
            /\ pipeline_variables["GCP_PROJECT_ID"] =
                  (IF "GCP_PROJECT_ID" \in DOMAIN environ
                   THEN environ["GCP_PROJECT_ID"] ELSE "")
            /\ pipeline_variables["TRIGGERED_BY"] = "gcp-secret-manager-webhook"
            /\ DOMAIN data =
                  {"token", "ref", "variables[SECRET_EVENT_TYPE]",
                   "variables[SECRET_NAME]", "variables[SECRET_RESOURCE]",
                   "variables[GCP_PROJECT_ID]", "variables[TRIGGERED_BY]"}
            /\ data["variables[SECRET_EVENT_TYPE]"] = event_type
            /\ data["variables[SECRET_NAME]"] = FourthSegment(resource_name)
            /\ data["variables[SECRET_RESOURCE]"] = resource_name

\* C9 happens: the trigger call was made for a resource name with a version
\* suffix, whose fourth segment is "s1"
C9_Witness ==
    /\ PostCalls # {}
    /\ Len(Split(resource_name, <<"/">>)) = 6
    /\ pipeline_variables["SECRET_NAME"] = <<"s", "1">>
    /\ pipeline_variables["SECRET_RESOURCE"] # secret_path

\* C10: when REQUIRED_LABELS is not empty but holds no "=", a creation or
\* update with valid configuration has an empty parsed filter, makes no label
\* lookup and ends having made the trigger call.
C10_BareTokensMeanNoFilter ==
    ( /\ event_type \in {"secret_created", "secret_updated"}
      /\ ~EnvMissing
      /\ RawRequiredLabels # EmptyStr
      /\ \A i \in 1..Len(RawRequiredLabels) : RawRequiredLabels[i] # "=" ) =>
        /\ LookupCalls = {}
        /\ outcome # "Skipped"
        /\ (pc \in {"check_labels", "trigger", "done"} => required_labels = EmptyDict)
        /\ (pc = "done" => Cardinality(PostCalls) = 1)

\* C10 happens: a creation under REQUIRED_LABELS = "a," made the trigger call
C10_Witness ==
    /\ pc = "done"
    /\ event_type = "secret_created"
    /\ required_labels_str = <<"a", ",">>
    /\ LookupCalls = {}
    /\ PostCalls # {}

====
